---- MODULE Spec2Model ----
(***************************************************************************)
(* Live cricket commentary feed: the ring buffer, the ingestion queue, the *)
(* scoreboard fold of App.js, and the reducer of CommentaryFeed.js.        *)
(*                                                                         *)
(* JavaScript values are tagged records so that numbers, NaN, undefined    *)
(* and strings stay distinct: [t, n, s] with t the tag, n the number and   *)
(* s the string as a tuple of one-character strings.  Commentary text,     *)
(* timestamps and styling never reach the state the model is about and are *)
(* left out of the events.                                                 *)
(***************************************************************************)
EXTENDS Integers, Sequences, FiniteSets, TLC

VARIABLES
    buffer,     \* App: the RingBuffer object [limit, buf, head, count]
    queue,      \* App: queueRef.current
    summary,    \* App: the summary state
    feed,       \* App: the feed state
    enqueued,   \* history: every event ever pushed to the queue, in order
    pushed,     \* history: every item ever pushed to the RingBuffer, in order
    applied,    \* history: [evt, before, after] for every event folded
    published,  \* history: number of setFeed calls
    lastTick,   \* history: which callback ran last
    fin,        \* fold check: input summary
    fevt,       \* fold check: input event
    fout,       \* fold check: outcome of App's applyEvent
    rin,        \* fold check: input state of the reducer
    rout,       \* fold check: outcome of CommentaryFeed's applyEvent
    fpc,        \* fold check: which function has been applied
    timers,     \* App: which of the two intervals are set [drain, producer]
    feedObj,    \* which array object the feed state refers to
    tally       \* fold sequence: [folded, deliveries, singles] so far

vars == <<buffer, queue, summary, feed, enqueued, pushed, applied, published,
          lastTick, fin, fevt, fout, rin, rout, fpc, timers, feedObj, tally>>

pipeVars == <<queue, summary, feed, enqueued, applied, published, lastTick>>
foldVars == <<fin, fevt, fout, rin, rout, fpc>>

----------------------------------------------------------------------------
(* Bounds of the model *)

MaxEvents == 3      \* events enqueued in one run of the pipeline
MaxLimit == 3       \* largest RingBuffer capacity tried on its own
MaxPushes == 4      \* pushes into a RingBuffer tried on its own
Near == 6           \* how far below the runs ceiling the input summaries start
MaxFolds == 7       \* events folded one after another from the zero summary
MaxClock == 2       \* readings Date.now() can give
MaxRandom == 1      \* largest value of Math.floor(Math.random() * 1e6) tried
Warm == 98          \* events a long run of the pipeline takes from the pool in turn

(* Program constants *)

BUFFER_LIMIT == 100
MAX_WICKETS == 10
MAX_RUNS == 300
MAX_OVERS == 50
BALLS_PER_OVER == 6

----------------------------------------------------------------------------
(* JavaScript values *)

Num(k) == [t |-> "num", n |-> k, s |-> <<>>]
NaN == [t |-> "nan", n |-> 0, s |-> <<>>]
Undefined == [t |-> "undef", n |-> 0, s |-> <<>>]
Str(cs) == [t |-> "str", n |-> 0, s |-> cs]

Digits == <<"0", "1", "2", "3", "4", "5", "6", "7", "8", "9">>

RECURSIVE NatToChars(_)
NatToChars(k) ==
    IF k < 10 THEN <<Digits[k + 1]>>
    ELSE NatToChars(k \div 10) \o <<Digits[(k % 10) + 1]>>

\* String(v): the string a value turns into under `+`
ToStr(v) ==
    CASE v.t = "num" -> IF v.n < 0 THEN <<"-">> \o NatToChars(0 - v.n)
                        ELSE NatToChars(v.n)
      [] v.t = "nan" -> <<"N", "a", "N">>
      [] v.t = "undef" -> <<"u", "n", "d", "e", "f", "i", "n", "e", "d">>
      [] OTHER -> v.s

\* the characters of a string that can be part of a decimal integer literal
IsDigits(cs) == Len(cs) > 0 /\ \A i \in 1..Len(cs) : \E d \in 1..10 : Digits[d] = cs[i]

RECURSIVE CharsToNat(_)
CharsToNat(cs) ==
    IF Len(cs) = 0 THEN 0
    ELSE CharsToNat(SubSeq(cs, 1, Len(cs) - 1)) * 10
         + (CHOOSE d \in 0..9 : Digits[d + 1] = cs[Len(cs)])

\* formatOvers(balls) of CommentaryFeed.js: `${completedOvers}.${ballsInCurrent}`
formatOvers(balls) ==
    NatToChars(balls \div 6) \o <<".">> \o NatToChars(balls % 6)

\* Number(v)
ToNumber(v) ==
    CASE v.t = "num" -> v
      [] v.t = "str" -> IF Len(v.s) = 0 THEN Num(0)
                       ELSE IF IsDigits(v.s) THEN Num(CharsToNat(v.s))
                       ELSE NaN
      [] OTHER -> NaN

\* a + b
JsAdd(a, b) ==
    IF a.t = "str" \/ b.t = "str" THEN Str(ToStr(a) \o ToStr(b))
    ELSE IF a.t = "num" /\ b.t = "num" THEN Num(a.n + b.n)
    ELSE NaN

\* a > k for a number k: false when a does not convert to a number
JsGt(a, k) == ToNumber(a).t = "num" /\ ToNumber(a).n > k

\* the truthiness of a value, as `||` tests it
Truthy(v) ==
    CASE v.t = "num" -> v.n # 0
      [] v.t = "str" -> Len(v.s) > 0
      [] OTHER -> FALSE

\* a || b
JsOr(a, b) == IF Truthy(a) THEN a ELSE b

Upper == <<"A", "B", "C", "D", "E", "F", "G", "H", "I", "J", "K", "L", "M",
           "N", "O", "P", "Q", "R", "S", "T", "U", "V", "W", "X", "Y", "Z">>
Lower == <<"a", "b", "c", "d", "e", "f", "g", "h", "i", "j", "k", "l", "m",
           "n", "o", "p", "q", "r", "s", "t", "u", "v", "w", "x", "y", "z">>

\* String.prototype.toLowerCase on a tuple of characters
toLowerCase(cs) ==
    [i \in 1..Len(cs) |->
        IF \E k \in 1..26 : Upper[k] = cs[i]
        THEN Lower[CHOOSE k \in 1..26 : Upper[k] = cs[i]]
        ELSE cs[i]]

\* String.prototype.includes
includes(cs, sub) ==
    \E i \in 0..(Len(cs) - Len(sub)) : SubSeq(cs, i + 1, i + Len(sub)) = sub

----------------------------------------------------------------------------
(* Events *)

Payload(runs, status) == [present |-> TRUE, runs |-> runs, status |-> status]
NoPayload == [present |-> FALSE, runs |-> Undefined, status |-> Undefined]

Event(id, type, payload) == [id |-> id, type |-> type, payload |-> payload]

InningsBreak == Str(<<"I", "n", "n", "i", "n", "g", "s", " ", "B", "r", "e", "a", "k">>)
NewInnings == Str(<<"N", "e", "w", " ", "I", "n", "n", "i", "n", "g", "s">>)
SecondInnings == Str(<<"2", "n", "d", " ", "N", "E", "W", " ", "i", "n", "n", "i", "n", "g", "s">>)
StatusUpdate == Str(<<"S", "t", "a", "t", "u", "s", " ", "U", "p", "d", "a", "t", "e">>)
Live == Str(<<"L", "i", "v", "e">>)
MARKER == <<"n", "e", "w", " ", "i", "n", "n", "i", "n", "g", "s">>

\* EVENT_POOL of App.js, without ids
EVENT_POOL ==
    << [type |-> "BALL", payload |-> Payload(Num(1), Undefined)],
       [type |-> "BOUNDARY", payload |-> Payload(Num(4), Undefined)],
       [type |-> "WICKET", payload |-> Payload(Undefined, Undefined)],
       [type |-> "MATCH_STATUS", payload |-> Payload(Undefined, InningsBreak)],
       [type |-> "BALL", payload |-> Payload(Num(0), Undefined)],
       [type |-> "BOUNDARY", payload |-> Payload(Num(6), Undefined)] >>

\* what buf is filled with before anything is pushed
Null == Event(0, "null", NoPayload)

----------------------------------------------------------------------------
(* RingBuffer (App.js) *)

RingBuffer(limit) ==
    [limit |-> limit, buf |-> [i \in 0..(limit - 1) |-> Null], head |-> 0, count |-> 0]

push_noEvict(b, item) ==
    [b EXCEPT !.buf = [b.buf EXCEPT ![(b.head + b.count) % b.limit] = item],
              !.count = IF b.count < b.limit THEN b.count + 1 ELSE b.count]

push_overCount(b, item) ==
    [b EXCEPT !.buf = [b.buf EXCEPT ![(b.head + b.count) % b.limit] = item],
              !.count = b.count + 1]

push(b, item) ==
    [b EXCEPT !.buf = [b.buf EXCEPT ![(b.head + b.count) % b.limit] = item],
              !.count = IF b.count < b.limit THEN b.count + 1 ELSE b.count,
              !.head = IF b.count < b.limit THEN b.head ELSE (b.head + 1) % b.limit]

toArrayDesc(b) ==
    [k \in 1..b.count |-> b.buf[(b.head + b.count - 1 - (k - 1) + b.limit) % b.limit]]

toArrayDesc_buf == "buf"

\* the array object toArrayDesc returns: `const arr = []` is a new array
\* ("arr"), never the storage of the buffer ("buf")
toArrayDesc_arr == "arr"

\* this.buf read as a sequence
bufSeq(b) == [k \in 1..b.limit |-> b.buf[k - 1]]

----------------------------------------------------------------------------
(* Scoreboard accumulator (App.js) *)

Summary(runs, wickets, overs, balls) ==
    [runs |-> runs, wickets |-> wickets, overs |-> overs, balls |-> balls]

ZERO_SUMMARY == Summary(Num(0), 0, 0, 0)

Return(v) == [kind |-> "return", value |-> v]
Throw(v) == [kind |-> "throw", value |-> v]

carryAndClamp_lateCarry(runs, wickets, overs, balls) ==
    LET overs1 == IF balls > BALLS_PER_OVER THEN overs + (balls \div BALLS_PER_OVER) ELSE overs
        balls1 == IF balls > BALLS_PER_OVER THEN balls % BALLS_PER_OVER ELSE balls
    IN  Summary(IF JsGt(runs, MAX_RUNS) THEN Num(MAX_RUNS) ELSE runs,
                IF wickets > MAX_WICKETS THEN MAX_WICKETS ELSE wickets,
                IF overs1 > MAX_OVERS THEN MAX_OVERS ELSE overs1,
                balls1)

\* the carry and the clamps that follow the switch
carryAndClamp(runs, wickets, overs, balls) ==
    LET overs1 == IF balls >= BALLS_PER_OVER THEN overs + (balls \div BALLS_PER_OVER) ELSE overs
        balls1 == IF balls >= BALLS_PER_OVER THEN balls % BALLS_PER_OVER ELSE balls
    IN  Summary(IF JsGt(runs, MAX_RUNS) THEN Num(MAX_RUNS) ELSE runs,
                IF wickets > MAX_WICKETS THEN MAX_WICKETS ELSE wickets,
                IF overs1 > MAX_OVERS THEN MAX_OVERS ELSE overs1,
                balls1)

applyEvent_statusResets(s, evt) ==
    IF evt.type \in {"BALL", "BOUNDARY"}
    THEN IF ~evt.payload.present THEN Throw(s)
         ELSE Return(carryAndClamp(JsAdd(s.runs, evt.payload.runs), s.wickets, s.overs, s.balls + 1))
    ELSE IF evt.type = "WICKET"
    THEN Return(carryAndClamp(s.runs, s.wickets + 1, s.overs, s.balls + 1))
    ELSE IF evt.type = "MATCH_STATUS" THEN Return(Summary(Num(0), 0, 0, 0))
    ELSE Return(s)

applyEvent_wicketNoBall(s, evt) ==
    IF evt.type \in {"BALL", "BOUNDARY"}
    THEN IF ~evt.payload.present THEN Throw(s)
         ELSE Return(carryAndClamp(JsAdd(s.runs, evt.payload.runs), s.wickets, s.overs, s.balls + 1))
    ELSE IF evt.type = "WICKET"
    THEN Return(carryAndClamp(s.runs, s.wickets + 1, s.overs, s.balls))
    ELSE Return(s)

applyEvent_unknownCounts(s, evt) ==
    IF evt.type \in {"BALL", "BOUNDARY"}
    THEN IF ~evt.payload.present THEN Throw(s)
         ELSE Return(carryAndClamp(JsAdd(s.runs, evt.payload.runs), s.wickets, s.overs, s.balls + 1))
    ELSE IF evt.type = "WICKET"
    THEN Return(carryAndClamp(s.runs, s.wickets + 1, s.overs, s.balls + 1))
    ELSE IF evt.type = "MATCH_STATUS" THEN Return(s)
    ELSE Return(carryAndClamp(s.runs, s.wickets, s.overs, s.balls + 1))

\* applyEvent(summary, evt): reading evt.payload.runs of an event without a
\* payload raises a TypeError
applyEvent(s, evt) ==
    IF evt.type \in {"BALL", "BOUNDARY"}
    THEN IF ~evt.payload.present THEN Throw(s)
         ELSE Return(carryAndClamp(JsAdd(s.runs, evt.payload.runs), s.wickets, s.overs, s.balls + 1))
    ELSE IF evt.type = "WICKET"
    THEN Return(carryAndClamp(s.runs, s.wickets + 1, s.overs, s.balls + 1))
    ELSE Return(s)

----------------------------------------------------------------------------
(* Reducer (CommentaryFeed.js) *)

initialState ==
    [totalRuns |-> 0, wickets |-> 0, balls |-> 0, commentary |-> <<>>, matchStatus |-> Live]

\* a commentary entry: { ...baseEvent, displayRuns, _unknown } with
\* baseEvent = { ...event, _id: `${timestamp}-${random}`, _receivedAt: timestamp }
Entry(event, displayRuns, unknown, now, rnd) ==
    [event |-> event, displayRuns |-> displayRuns, unknown |-> unknown,
     _id |-> <<now, rnd>>, _receivedAt |-> now]

addBall_none(s) == s

addBall(s) == [s EXCEPT !.balls = s.balls + 1]

\* applyEvent(state, event) of CommentaryFeed.js; now is what Date.now()
\* returns and rnd what Math.floor(Math.random() * 1e6) returns in the call
CF_applyEvent(state, event, now, rnd) ==
    LET payload == IF event.payload.present THEN event.payload
                   ELSE Payload(Undefined, Undefined)
    IN  CASE event.type = "BALL" ->
               LET runs == JsOr(ToNumber(payload.runs), Num(0))
               IN  Return(addBall([state EXCEPT
                       !.totalRuns = state.totalRuns + runs.n,
                       !.commentary = <<Entry(event, runs, FALSE, now, rnd)>> \o state.commentary]))
          [] event.type = "BOUNDARY" ->
               LET runs == JsOr(ToNumber(payload.runs), Num(4))
               IN  Return(addBall([state EXCEPT
                       !.totalRuns = state.totalRuns + runs.n,
                       !.commentary = <<Entry(event, runs, FALSE, now, rnd)>> \o state.commentary]))
          [] event.type = "WICKET" ->
               Return(addBall([state EXCEPT
                       !.wickets = state.wickets + 1,
                       !.commentary = <<Entry(event, Undefined, FALSE, now, rnd)>> \o state.commentary]))
          [] event.type = "MATCH_STATUS" ->
               LET status == JsOr(payload.status, StatusUpdate)
                   next == [state EXCEPT
                       !.matchStatus = status,
                       !.commentary = <<Entry(event, Undefined, FALSE, now, rnd)>> \o state.commentary]
               IN  IF status.t # "str" THEN Throw(state)
                   ELSE IF includes(toLowerCase(status.s), MARKER)
                   THEN Return([next EXCEPT !.totalRuns = 0, !.wickets = 0, !.balls = 0])
                   ELSE Return(next)
          [] OTHER ->
               Return([state EXCEPT
                       !.commentary = <<Entry(event, Undefined, TRUE, now, rnd)>> \o state.commentary])

----------------------------------------------------------------------------
(* Pipeline (App.js): the producer tick and the drain tick *)

\* q.forEach(e => buffer.push(e))
RECURSIVE pushAll(_, _)
pushAll(b, q) ==
    IF q = <<>> THEN b ELSE pushAll(push(b, Head(q)), Tail(q))

foldAll_stale(s, q) ==
    IF q = <<>> THEN s ELSE applyEvent(ZERO_SUMMARY, q[Len(q)]).value

\* q.forEach(e => setSummary(s => applyEvent(s, e))): React runs the queued
\* updaters in the order they were queued
RECURSIVE foldAll(_, _)
foldAll(s, q) ==
    IF q = <<>> THEN s ELSE foldAll(applyEvent(s, Head(q)).value, Tail(q))

\* the same walk, recording each event with the summary before and after it
RECURSIVE foldTrace(_, _)
foldTrace(s, q) ==
    IF q = <<>> THEN <<>>
    ELSE LET after == applyEvent(s, Head(q)).value
         IN  <<[evt |-> Head(q), before |-> s, after |-> after]>> \o foldTrace(after, Tail(q))

\* events that reach the queue from a feed other than the mock pool: an
\* event of a type the pipeline does not know, and a status that starts an
\* innings
FEED_EXTRA ==
    << [type |-> "UNKNOWN_EVENT", payload |-> Payload(Undefined, Undefined)],
       [type |-> "MATCH_STATUS", payload |-> Payload(Undefined, NewInnings)] >>

WithId(e, id) == Event(id, e.type, e.payload)

enqueue_front(evt) ==
    /\ queue' = <<evt>> \o queue
    /\ enqueued' = Append(enqueued, evt)
    /\ UNCHANGED <<buffer, summary, feed, pushed, applied, published>>
    /\ UNCHANGED <<timers, feedObj, tally>>
    /\ UNCHANGED foldVars

\* queueRef.current.push(evt)
enqueue(evt) ==
    /\ queue' = Append(queue, evt)
    /\ enqueued' = Append(enqueued, evt)
    /\ UNCHANGED <<buffer, summary, feed, pushed, applied, published>>
    /\ UNCHANGED <<timers, feedObj, tally>>
    /\ UNCHANGED foldVars

\* the callback of the 3000 ms interval
\* the pipeline runs from a fresh mount ("off"), or on from the first Warm
\* events of a long run ("long")
Running == fpc = {"off"} \/ (fpc = {"long"} /\ Len(enqueued) >= Warm)
Quota == IF fpc = {"long"} THEN Warm + MaxEvents ELSE MaxEvents

ProducerTick ==
    /\ Running
    /\ timers.producer
    /\ Len(enqueued) < Quota
    /\ lastTick' = "producer"
    /\ \E i \in 1..Len(EVENT_POOL) : enqueue(WithId(EVENT_POOL[i], Len(enqueued) + 1))

\* a feed other than the mock producer pushes to the queue; it holds the
\* queue and is not stopped by the teardown of the component
ExternalEvent ==
    /\ fpc = {"off"}
    /\ Len(enqueued) < MaxEvents
    /\ lastTick' = "external"
    /\ \E i \in 1..Len(FEED_EXTRA) : enqueue(WithId(FEED_EXTRA[i], Len(enqueued) + 1))

DrainTick_alwaysPublish ==
    /\ fpc = {"off"}
    /\ timers.drain
    /\ queue' = <<>>
    /\ buffer' = pushAll(buffer, queue)
    /\ summary' = foldAll(summary, queue)
    /\ feed' = toArrayDesc(pushAll(buffer, queue))
    /\ feedObj' = toArrayDesc_arr
    /\ published' = published + 1
    /\ pushed' = pushed \o queue
    /\ applied' = applied \o foldTrace(summary, queue)
    /\ lastTick' = IF Len(queue) > 0 THEN "drain" ELSE "idle"
    /\ UNCHANGED <<enqueued, timers, tally>>
    /\ UNCHANGED foldVars

DrainTick_spliceOne ==
    /\ fpc = {"off"}
    /\ timers.drain
    /\ queue' = IF queue = <<>> THEN <<>> ELSE <<Head(queue)>>
    /\ IF Len(queue) > 1
       THEN /\ buffer' = pushAll(buffer, Tail(queue))
            /\ summary' = foldAll(summary, Tail(queue))
            /\ feed' = toArrayDesc(pushAll(buffer, Tail(queue)))
            /\ feedObj' = toArrayDesc_arr
            /\ published' = published + 1
            /\ pushed' = pushed \o Tail(queue)
            /\ applied' = applied \o foldTrace(summary, Tail(queue))
       ELSE UNCHANGED <<buffer, summary, feed, feedObj, published, pushed, applied>>
    /\ lastTick' = IF Len(queue) > 1 THEN "drain" ELSE "idle"
    /\ UNCHANGED <<enqueued, timers, tally>>
    /\ UNCHANGED foldVars

\* the interval callback: splice(0) takes the whole queue; the setSummary
\* updaters and the setFeed value are committed by the render that follows
\* the callback, which is part of the step
DrainTick ==
    /\ Running
    /\ timers.drain
    /\ queue' = <<>>
    /\ IF Len(queue) > 0
       THEN /\ buffer' = pushAll(buffer, queue)
            /\ summary' = foldAll(summary, queue)
            /\ feed' = toArrayDesc(pushAll(buffer, queue))
            /\ feedObj' = toArrayDesc_arr
            /\ published' = published + 1
            /\ pushed' = pushed \o queue
            /\ applied' = applied \o foldTrace(summary, queue)
       ELSE UNCHANGED <<buffer, summary, feed, feedObj, published, pushed, applied>>
    /\ lastTick' = IF Len(queue) > 0 THEN "drain" ELSE "idle"
    /\ UNCHANGED <<enqueued, timers, tally>>
    /\ UNCHANGED foldVars

Teardown_producerOnly ==
    /\ fpc = {"off"}
    /\ timers.producer
    /\ timers' = [drain |-> timers.drain, producer |-> FALSE]
    /\ lastTick' = "teardown"
    /\ UNCHANGED <<buffer, queue, summary, feed, feedObj, enqueued, pushed, applied,
                   published, tally>>
    /\ UNCHANGED foldVars

\* the cleanups of the two effects, run together when App unmounts:
\* clearInterval(id) and clearInterval(t)
Teardown ==
    /\ fpc = {"off"}
    /\ timers.drain \/ timers.producer
    /\ timers' = [drain |-> FALSE, producer |-> FALSE]
    /\ lastTick' = "teardown"
    /\ UNCHANGED <<buffer, queue, summary, feed, feedObj, enqueued, pushed, applied,
                   published, tally>>
    /\ UNCHANGED foldVars

----------------------------------------------------------------------------
(* The RingBuffer on its own, for every capacity up to MaxLimit *)

RBPush ==
    /\ fpc = {"rb"}
    /\ Len(pushed) < MaxPushes
    /\ \E i \in 1..Len(EVENT_POOL) :
          LET item == WithId(EVENT_POOL[i], Len(pushed) + 1)
          IN  /\ buffer' = push(buffer, item)
              /\ pushed' = Append(pushed, item)
              /\ feed' = IF feedObj = "buf" THEN bufSeq(push(buffer, item)) ELSE feed
    /\ UNCHANGED <<feedObj, queue, summary, enqueued, applied, published, lastTick>>
    /\ UNCHANGED <<timers, tally>>
    /\ UNCHANGED foldVars

RBSnapshot ==
    /\ fpc = {"rb"}
    /\ feedObj' = toArrayDesc_arr
    /\ feed' = IF toArrayDesc_arr = "buf" THEN bufSeq(buffer) ELSE toArrayDesc(buffer)
    /\ UNCHANGED <<buffer, pushed, queue, summary, enqueued, applied, published, lastTick>>
    /\ UNCHANGED <<timers, tally>>
    /\ UNCHANGED foldVars

\* the holder of a snapshot overwrites its first element (snapshot[0] = null);
\* the write lands in the buffer's storage only if the snapshot is that array
SnapshotWrite ==
    /\ fpc = {"rb"}
    /\ Len(feed) > 0
    /\ feed[1] # Null
    /\ feed' = [feed EXCEPT ![1] = Null]
    /\ buffer' = IF feedObj = "buf" THEN [buffer EXCEPT !.buf[0] = Null] ELSE buffer
    /\ UNCHANGED <<feedObj, pushed, queue, summary, enqueued, applied, published, lastTick>>
    /\ UNCHANGED <<timers, tally>>
    /\ UNCHANGED foldVars

----------------------------------------------------------------------------
(* The two folds on their own, for inputs drawn from bounded sets *)

InputSummaries ==
    { Summary(Num(r), w, o, b) :
        r \in {0} \cup ((MAX_RUNS - Near)..MAX_RUNS),
        w \in {0, MAX_WICKETS - 1, MAX_WICKETS},
        o \in {0, MAX_OVERS - 1, MAX_OVERS},
        b \in 0..(BALLS_PER_OVER - 1) }

NotANumber == Str(<<"x">>)

FoldEvents ==
    { Event(1, t, p) :
        t \in {"BALL", "BOUNDARY"},
        p \in { Payload(Num(0), Undefined), Payload(Num(1), Undefined),
                Payload(Num(4), Undefined), Payload(Num(6), Undefined),
                Payload(Undefined, Undefined), Payload(NotANumber, Undefined),
                NoPayload } }
    \cup { Event(1, "WICKET", p) : p \in {Payload(Undefined, Undefined), NoPayload} }
    \cup { Event(1, "MATCH_STATUS", p) :
             p \in { Payload(Undefined, InningsBreak), Payload(Undefined, NewInnings),
                     Payload(Undefined, SecondInnings), Payload(Undefined, Undefined),
                     NoPayload } }
    \cup { Event(1, "UNKNOWN_EVENT", p) : p \in {Payload(Undefined, Undefined), NoPayload} }

\* the reducer state that shows the same score as a summary
StateOf(s) ==
    [initialState EXCEPT !.totalRuns = s.runs.n, !.wickets = s.wickets,
                         !.balls = s.overs * BALLS_PER_OVER + s.balls]

NotYet(v) == [kind |-> "none", value |-> v]

\* one call of App's applyEvent on the inputs; it can be called again
FoldApp ==
    /\ "input" \in fpc
    /\ fout' = applyEvent(fin, fevt)
    /\ fpc' = fpc \cup {"app"}
    /\ UNCHANGED <<fin, fevt, rin, rout, buffer, pushed>>
    /\ UNCHANGED <<timers, feedObj, tally>>
    /\ UNCHANGED pipeVars

\* one dispatch of PROCESS_EVENT on the inputs; it can be dispatched again
FoldReducer ==
    /\ "input" \in fpc
    /\ \E now \in 1..MaxClock, rnd \in 0..MaxRandom :
          rout' = CF_applyEvent(rin, fevt, now, rnd)
    /\ fpc' = fpc \cup {"reducer"}
    /\ UNCHANGED <<fin, fevt, fout, rin, buffer, pushed>>
    /\ UNCHANGED <<timers, feedObj, tally>>
    /\ UNCHANGED pipeVars

----------------------------------------------------------------------------
(* The summary fold applied to one pool event after another, from zero *)

DELIVERY_TYPES == {"BALL", "BOUNDARY", "WICKET"}

FoldNext ==
    /\ fpc = {"seq"}
    /\ tally.folded < MaxFolds
    /\ \E i \in 1..Len(EVENT_POOL \o FEED_EXTRA) :
          LET e == WithId((EVENT_POOL \o FEED_EXTRA)[i], tally.folded + 1)
          IN  /\ summary' = applyEvent(summary, e).value
              /\ fevt' = e
              /\ tally' = [folded |-> tally.folded + 1,
                           deliveries |-> tally.deliveries
                                          + (IF e.type \in DELIVERY_TYPES THEN 1 ELSE 0),
                           singles |-> tally.singles /\ i = 1]
    /\ UNCHANGED <<buffer, queue, feed, feedObj, enqueued, pushed, applied, published,
                   lastTick, timers>>
    /\ UNCHANGED <<fin, fout, rin, rout, fpc>>

----------------------------------------------------------------------------
(* Specifications *)

PipeInit ==
    /\ queue = <<>>
    /\ summary = ZERO_SUMMARY
    /\ feed = <<>>
    /\ enqueued = <<>>
    /\ pushed = <<>>
    /\ applied = <<>>
    /\ published = 0
    /\ lastTick = "none"
    /\ timers = [drain |-> TRUE, producer |-> TRUE]
    /\ feedObj = "arr"
    /\ tally = [folded |-> 0, deliveries |-> 0, singles |-> TRUE]

FoldIdle ==
    /\ fin = ZERO_SUMMARY
    /\ fevt = Null
    /\ fout = NotYet(ZERO_SUMMARY)
    /\ rin = initialState
    /\ rout = NotYet(initialState)

Init ==
    /\ buffer = RingBuffer(BUFFER_LIMIT)
    /\ PipeInit
    /\ FoldIdle
    /\ fpc = {"off"}

Next == ProducerTick \/ ExternalEvent \/ DrainTick \/ Teardown

Spec == Init /\ [][Next]_vars

InitRB ==
    /\ \E limit \in 1..MaxLimit : buffer = RingBuffer(limit)
    /\ PipeInit
    /\ FoldIdle
    /\ fpc = {"rb"}

NextRB == RBPush \/ RBSnapshot \/ SnapshotWrite

SpecRB == InitRB /\ [][NextRB]_vars

InitFold ==
    /\ buffer = RingBuffer(BUFFER_LIMIT)
    /\ PipeInit
    /\ fin \in InputSummaries
    /\ fevt \in FoldEvents
    /\ fout = NotYet(fin)
    /\ rin = StateOf(fin)
    /\ rout = NotYet(rin)
    /\ fpc = {"input"}

NextFold == FoldApp \/ FoldReducer

SpecFold == InitFold /\ [][NextFold]_vars

InitFoldSeq ==
    /\ buffer = RingBuffer(BUFFER_LIMIT)
    /\ PipeInit
    /\ FoldIdle
    /\ fpc = {"seq"}

NextFoldSeq == FoldNext

SpecFoldSeq == InitFoldSeq /\ [][NextFoldSeq]_vars

\* the first Warm events of a long run: the pool taken in turn
Played == [i \in 1..Warm |-> WithId(EVENT_POOL[((i - 1) % Len(EVENT_POOL)) + 1], i)]

\* a producer tick and the drain tick that follows it, taken as one step
\* while the long run fills the RingBuffer of capacity 100
PlayOne ==
    /\ fpc = {"long"}
    /\ timers.producer
    /\ timers.drain
    /\ queue = <<>>
    /\ Len(enqueued) < Warm
    /\ LET evt == Played[Len(enqueued) + 1]
       IN  /\ enqueued' = Append(enqueued, evt)
           /\ queue' = <<>>
           /\ buffer' = pushAll(buffer, <<evt>>)
           /\ summary' = foldAll(summary, <<evt>>)
           /\ feed' = toArrayDesc(pushAll(buffer, <<evt>>))
           /\ feedObj' = toArrayDesc_arr
           /\ published' = published + 1
           /\ pushed' = Append(pushed, evt)
           /\ applied' = applied \o foldTrace(summary, <<evt>>)
    /\ lastTick' = "drain"
    /\ UNCHANGED <<timers, tally>>
    /\ UNCHANGED foldVars

InitLong ==
    /\ buffer = RingBuffer(BUFFER_LIMIT)
    /\ PipeInit
    /\ FoldIdle
    /\ fpc = {"long"}

NextLong == PlayOne \/ ProducerTick \/ DrainTick

SpecLong == InitLong /\ [][NextLong]_vars

\* the 200 ms interval keeps calling the drain callback while it is set
SpecLive == Init /\ [][Next]_vars /\ WF_vars(DrainTick)

----------------------------------------------------------------------------
(* Properties *)

Min(a, b) == IF a < b THEN a ELSE b
Range(f) == { f[i] : i \in DOMAIN f }
Reverse(q) == [i \in 1..Len(q) |-> q[Len(q) - i + 1]]
LastN(q, n) == SubSeq(q, Len(q) - Min(n, Len(q)) + 1, Len(q))
Evts(trace) == [i \in 1..Len(trace) |-> trace[i].evt]
KNOWN_TYPES == {"BALL", "BOUNDARY", "WICKET", "MATCH_STATUS"}

\* C1: for every capacity and every sequence of pushes the buffer holds at
\* most `limit` events, and toArrayDesc returns as many events as are held,
\* each of them a pushed event, the later pushed always before the earlier.
C1_BoundedNewestFirst ==
    ("rb" \in fpc) =>
        LET snap == toArrayDesc(buffer)
        IN  /\ buffer.count <= buffer.limit
            /\ buffer.count = Min(Len(pushed), buffer.limit)
            /\ Len(snap) = buffer.count
            /\ \A k \in 1..Len(snap) : snap[k] \in Range(pushed)
            /\ \A j, k \in 1..Len(snap) : j < k => snap[j].id > snap[k].id

C1_Witness ==
    /\ "rb" \in fpc
    /\ buffer.limit = 3
    /\ buffer.count = 3
    /\ Len(pushed) = 3
    /\ feed = toArrayDesc(buffer)

\* C2: once more events have been pushed than the buffer can hold, the
\* snapshot is the last `limit` pushed events, newest first, and none of
\* the events pushed before them is in it.
C2_LastNKept ==
    ("rb" \in fpc /\ Len(pushed) > buffer.limit) =>
        LET snap == toArrayDesc(buffer)
        IN  /\ snap = Reverse(LastN(pushed, buffer.limit))
            /\ \A i \in 1..(Len(pushed) - buffer.limit) : pushed[i] \notin Range(snap)

C2_Witness ==
    /\ "rb" \in fpc
    /\ buffer.limit = 2
    /\ Len(pushed) = buffer.limit + 2
    /\ feed = toArrayDesc(buffer)

\* C3: whatever the interleaving of producer and drain ticks, the events
\* folded so far followed by the events still queued are the events
\* enqueued, in that order; the RingBuffer was pushed the same events in
\* the same order; each event was folded once, into the summary the event
\* before it left; and the summary is what the last of them left.
C3_AppliedInEnqueueOrder ==
    ("off" \in fpc) =>
        /\ Evts(applied) \o queue = enqueued
        /\ pushed = Evts(applied)
        /\ feed = Reverse(LastN(pushed, buffer.limit))
        /\ \A i \in 1..Len(applied) :
              applied[i].before = IF i = 1 THEN ZERO_SUMMARY ELSE applied[i - 1].after
        /\ summary = IF applied = <<>> THEN ZERO_SUMMARY ELSE applied[Len(applied)].after

C3_Witness ==
    /\ "off" \in fpc
    /\ Len(applied) = 3
    /\ published = 2
    /\ summary.wickets = 1
    /\ summary.runs = Num(10)

\* C4: folding a MATCH_STATUS event whose status contains 'new innings',
\* in any letter case, returns a summary with runs, wickets and balls 0.
C4_NewInningsResets ==
    ("app" \in fpc /\ fevt.type = "MATCH_STATUS" /\ fevt.payload.status.t = "str"
        /\ includes(toLowerCase(fevt.payload.status.s), MARKER)) =>
        /\ fout.kind = "return"
        /\ fout.value.runs = Num(0)
        /\ fout.value.wickets = 0
        /\ fout.value.balls = 0

\* C5: the summary returned for any summary in range and any event has
\* balls in 0..5, wickets in 0..10, runs a number in 0..300, overs in 0..50.
C5_ResultInRange ==
    ("app" \in fpc /\ fout.kind = "return") =>
        /\ fout.value.balls \in 0..(BALLS_PER_OVER - 1)
        /\ fout.value.wickets \in 0..MAX_WICKETS
        /\ fout.value.runs.t = "num"
        /\ fout.value.runs.n \in 0..MAX_RUNS
        /\ fout.value.overs \in 0..MAX_OVERS

Deliveries(s) == s.overs * BALLS_PER_OVER + s.balls

\* C6: folding a BALL or BOUNDARY event whose payload.runs is a number r
\* adds r to the runs (up to the ceiling of 300 where there is one) and
\* counts one more delivery (unless overs is held at its ceiling), in the
\* summary fold and in the reducer alike, for r = 0 too.
C6_NumericRunsAdded ==
    (fevt.type \in {"BALL", "BOUNDARY"} /\ fevt.payload.present
        /\ fevt.payload.runs.t = "num") =>
        /\ ("app" \in fpc) =>
              /\ fout.kind = "return"
              /\ fout.value.runs = Num(Min(fin.runs.n + fevt.payload.runs.n, MAX_RUNS))
              /\ \/ Deliveries(fout.value) = Deliveries(fin) + 1
                 \/ fout.value.overs = MAX_OVERS
        /\ ("reducer" \in fpc) =>
              /\ rout.kind = "return"
              /\ rout.value.totalRuns = rin.totalRuns + fevt.payload.runs.n
              /\ rout.value.balls = rin.balls + 1

\* C7: when payload.runs is missing or not a number, folding a BALL adds 0
\* and folding a BOUNDARY adds 4; the runs of the result are a number in
\* 0..300 and one more ball is counted.
C7_MissingRunsDefaulted ==
    ("app" \in fpc /\ fevt.type \in {"BALL", "BOUNDARY"} /\ fevt.payload.present
        /\ ToNumber(fevt.payload.runs).t # "num") =>
        /\ fout.kind = "return"
        /\ fout.value.runs.t = "num"
        /\ fout.value.runs.n \in 0..MAX_RUNS
        /\ fout.value.runs.n = Min(fin.runs.n + (IF fevt.type = "BALL" THEN 0 ELSE 4), MAX_RUNS)
        /\ \/ Deliveries(fout.value) = Deliveries(fin) + 1
           \/ fout.value.overs = MAX_OVERS

\* C8: applying the fold to an event of any type, with or without a
\* payload, returns a summary and raises nothing.
C8_FoldTotal ==
    ("app" \in fpc) => fout.kind = "return"

\* C9: an event whose type is none of BALL, BOUNDARY, WICKET, MATCH_STATUS,
\* once drained, is in the published feed at the place its arrival gives it
\* (newest first), and the summary after it is the summary before it.
C9_UnknownInFeedNotInSummary ==
    ("off" \in fpc) =>
        \A i \in 1..Len(applied) :
            (applied[i].evt.type \notin KNOWN_TYPES) =>
                /\ applied[i].after = applied[i].before
                /\ (Len(applied) - i < buffer.limit) =>
                      /\ Len(feed) >= Len(applied) - i + 1
                      /\ feed[Len(applied) - i + 1] = applied[i].evt
                /\ (i = Len(applied)) => summary = applied[i].before

C9_Witness ==
    /\ "off" \in fpc
    /\ Len(applied) = 2
    /\ applied[1].evt.type = "WICKET"
    /\ applied[2].evt.type = "UNKNOWN_EVENT"
    /\ feed[1] = applied[2].evt
    /\ summary.wickets = 1

\* C10: a drain tick that finds the queue empty leaves the queue, the
\* RingBuffer, the summary and the feed as they were and publishes nothing.
C10_EmptyDrainPublishesNothing ==
    [][(queue = <<>> /\ lastTick' = "idle") =>
          /\ queue' = <<>>
          /\ buffer' = buffer
          /\ summary' = summary
          /\ feed' = feed
          /\ published' = published
          /\ pushed' = pushed
          /\ applied' = applied]_vars

C10_Witness ==
    /\ "off" \in fpc
    /\ lastTick = "idle"
    /\ published = 1
    /\ Len(feed) = 2
    /\ queue = <<>>


\* the summary after folding the first n of evts one at a time from zero
RECURSIVE OneAtATime(_, _)
OneAtATime(evts, n) ==
    IF n = 0 THEN ZERO_SUMMARY
    ELSE applyEvent(OneAtATime(evts, n - 1), evts[n]).value

\* C11: however the drain ticks cut the enqueued events into batches, the
\* summary after the last batch is the summary that folding the drained
\* events one at a time from the zero summary gives.
C11_BatchingIrrelevant ==
    ("off" \in fpc) => summary = OneAtATime(enqueued, Len(enqueued) - Len(queue))

C11_Witness ==
    /\ "off" \in fpc
    /\ published = 2
    /\ Len(pushed) = 3
    /\ queue = <<>>
    /\ summary = Summary(Num(11), 0, 0, 3)

\* C12: six BALL events with runs 1 folded from the zero summary give
\* runs 6, wickets 0, overs 1, balls 0.
C12_SixSinglesOneOver ==
    ("seq" \in fpc /\ tally.singles /\ tally.folded = 6) =>
        summary = Summary(Num(6), 0, 1, 0)

C12_Witness ==
    /\ "seq" \in fpc
    /\ tally.singles
    /\ tally.folded = 6
    /\ tally.deliveries = 6
    /\ summary.overs = 1


\* C13 as claimed: folding a WICKET event into any summary adds one to
\* wickets and one delivery to the ball count and leaves runs unchanged.
C13_WicketAlwaysCounts ==
    (fevt.type = "WICKET") =>
        /\ ("app" \in fpc) =>
              /\ fout.kind = "return"
              /\ fout.value.wickets = fin.wickets + 1
              /\ Deliveries(fout.value) = Deliveries(fin) + 1
              /\ fout.value.runs = fin.runs
        /\ ("reducer" \in fpc) =>
              /\ rout.kind = "return"
              /\ rout.value.wickets = rin.wickets + 1
              /\ rout.value.balls = rin.balls + 1
              /\ rout.value.totalRuns = rin.totalRuns

\* C13 amended: folding a WICKET event into a summary in range adds one to
\* wickets unless wickets is already 10, where it stays 10; it adds one to
\* balls, the sixth ball becoming an over unless overs is already 50, where
\* it stays 50; runs is unchanged.  In the reducer wickets and balls always
\* rise by one and totalRuns is unchanged.
C13_WicketCountsUpToCeiling ==
    (fevt.type = "WICKET") =>
        /\ ("app" \in fpc) =>
              /\ fout.kind = "return"
              /\ fout.value.wickets = Min(fin.wickets + 1, MAX_WICKETS)
              /\ fout.value.balls = (fin.balls + 1) % BALLS_PER_OVER
              /\ fout.value.overs =
                    IF fin.balls + 1 = BALLS_PER_OVER
                    THEN Min(fin.overs + 1, MAX_OVERS) ELSE fin.overs
              /\ fout.value.runs = fin.runs
        /\ ("reducer" \in fpc) =>
              /\ rout.kind = "return"
              /\ rout.value.wickets = rin.wickets + 1
              /\ rout.value.balls = rin.balls + 1
              /\ rout.value.totalRuns = rin.totalRuns

C13_Witness ==
    /\ fpc = {"input", "app", "reducer"}
    /\ fevt.type = "WICKET"
    /\ fin.wickets = MAX_WICKETS
    /\ fout.value.wickets = MAX_WICKETS
    /\ rout.value.wickets = MAX_WICKETS + 1
    /\ fin.balls = 5
    /\ fout.value.overs = 1

\* C16: the fold is a function of the summary and the event alone and
\* changes neither: a call leaves its inputs as they were, and calling it
\* again on the same inputs returns what the earlier call returned.
C16_FoldPure ==
    [][/\ fin' = fin
       /\ fevt' = fevt
       /\ rin' = rin
       /\ ("app" \in fpc /\ "app" \in fpc') => fout' = fout
       /\ ("reducer" \in fpc /\ "reducer" \in fpc') => rout' = rout]_<<fin, fevt, rin, fout, rout, fpc>>

\* C17: a field at its ceiling (runs 300, wickets 10, overs 50) is still at
\* its ceiling after a further BALL, BOUNDARY or WICKET event, and an event
\* that changes nothing returns a summary equal to the clamped one.
C17_ClampSaturates ==
    ("app" \in fpc) =>
        /\ (fevt.type \in DELIVERY_TYPES) =>
              /\ fout.kind = "return"
              /\ (fin.runs = Num(MAX_RUNS)) => fout.value.runs = Num(MAX_RUNS)
              /\ (fin.wickets = MAX_WICKETS) => fout.value.wickets = MAX_WICKETS
              /\ (fin.overs = MAX_OVERS) => fout.value.overs = MAX_OVERS
        /\ (fevt.type \notin DELIVERY_TYPES) => fout = Return(fin)


\* C14: teardown clears both intervals together, and once they are cleared
\* no callback runs: the RingBuffer, the summary and the feed stay as they
\* are and nothing is published, whatever is enqueued afterwards.
C14_TeardownStopsBoth ==
    [][/\ timers'.drain = timers'.producer
       /\ (~timers.drain /\ ~timers.producer) =>
             /\ timers' = timers
             /\ buffer' = buffer
             /\ summary' = summary
             /\ feed' = feed
             /\ published' = published
             /\ pushed' = pushed
             /\ applied' = applied
             /\ Len(queue') >= Len(queue)]_vars

C14_Witness ==
    /\ "off" \in fpc
    /\ ~timers.drain
    /\ ~timers.producer
    /\ lastTick = "external"
    /\ published = 1
    /\ Len(queue) = 1
    /\ Len(applied) = 2

\* C15: a push to the RingBuffer leaves a snapshot returned earlier as it
\* was, and a step that pushes nothing (taking a snapshot, writing into a
\* returned snapshot) leaves the buffer as it was.
C15_SnapshotNotAliased ==
    [][("rb" \in fpc) =>
          /\ (pushed' # pushed) => feed' = feed
          /\ (pushed' = pushed) => buffer' = buffer]_vars

C15_Witness ==
    /\ "rb" \in fpc
    /\ buffer.limit = 3
    /\ Len(pushed) = 3
    /\ Len(feed) = 2
    /\ feed[1] = Null
    /\ feed[2] = pushed[1]
    /\ toArrayDesc(buffer) = Reverse(pushed)

\* C18: the summary starts as all zeros, and no fold makes runs, wickets or
\* overs smaller.
C18_StartsZeroNeverDecreases ==
    /\ summary = ZERO_SUMMARY
    /\ [][/\ summary'.runs.t = "num"
          /\ summary'.runs.n >= summary.runs.n
          /\ summary'.wickets >= summary.wickets
          /\ summary'.overs >= summary.overs]_vars

C18_Witness ==
    /\ "seq" \in fpc
    /\ tally.folded = 7
    /\ fevt.type = "MATCH_STATUS"
    /\ fevt.payload.status = NewInnings
    /\ summary.overs = 1
    /\ summary.wickets = 2
    /\ summary.runs = Num(16)

\* C19: from the zero summary, overs * 6 + balls is the number of BALL,
\* BOUNDARY and WICKET events folded so far while overs is below 50; balls
\* is below 6, overs is the number of complete sixes of deliveries, and the
\* pair reads as formatOvers shows the raw ball count.
C19_OversCountDeliveries ==
    ("seq" \in fpc) =>
        /\ summary.balls \in 0..(BALLS_PER_OVER - 1)
        /\ (summary.overs < MAX_OVERS) =>
              /\ Deliveries(summary) = tally.deliveries
              /\ summary.overs = tally.deliveries \div BALLS_PER_OVER
              /\ NatToChars(summary.overs) \o <<".">> \o NatToChars(summary.balls)
                    = formatOvers(tally.deliveries)

C19_Witness ==
    /\ "seq" \in fpc
    /\ tally.deliveries = 7
    /\ summary.overs = 1
    /\ summary.balls = 1

TimesIn(q, id) == Cardinality({ i \in DOMAIN q : q[i].id = id })

\* C20: every enqueued event is in the queue or has been applied, never
\* both and never twice; the queue is empty right after a drain tick; and
\* while the drain interval is set, an enqueued event is eventually pushed
\* to the RingBuffer once and folded once.
C20_EventuallyAppliedOnce ==
    /\ [](("off" \in fpc) =>
            /\ \A k \in 1..Len(enqueued) :
                  /\ TimesIn(queue, k) + TimesIn(Evts(applied), k) = 1
                  /\ TimesIn(pushed, k) = TimesIn(Evts(applied), k)
            /\ (lastTick \in {"drain", "idle"}) => queue = <<>>)
    /\ \A k \in 1..MaxEvents :
          (Len(enqueued) >= k /\ timers.drain)
              ~> (~timers.drain \/ (TimesIn(Evts(applied), k) = 1 /\ TimesIn(queue, k) = 0))

C20_Witness ==
    /\ "off" \in fpc
    /\ timers.drain
    /\ lastTick = "drain"
    /\ published = 3
    /\ Len(applied) = 3
    /\ queue = <<>>


\* s is what folding evts one at a time from the zero summary gives, and
\* trace is the record of that fold, step by step
FoldedFromZero(trace, evts, s) ==
    /\ Evts(trace) = evts
    /\ s = IF trace = <<>> THEN ZERO_SUMMARY ELSE trace[Len(trace)].after
    /\ \A i \in 1..Len(trace) :
          /\ trace[i].before = IF i = 1 THEN ZERO_SUMMARY ELSE trace[i - 1].after
          /\ trace[i].after = applyEvent(trace[i].before, trace[i].evt).value

\* C21: once a drain tick has published, with n the number of events
\* drained so far, the feed is the last min(100, n) of them, newest first,
\* so it is never longer than the capacity, and the summary is the fold of
\* all n of them from the zero summary.
C21_FeedAndSummaryAgree ==
    (fpc \in {{"off"}, {"long"}} /\ published > 0) =>
        LET n == Len(enqueued) - Len(queue)
            drained == SubSeq(enqueued, 1, n)
        IN  /\ Len(feed) = Min(BUFFER_LIMIT, n)
            /\ Len(feed) <= BUFFER_LIMIT
            /\ feed = Reverse(LastN(drained, Min(BUFFER_LIMIT, n)))
            /\ FoldedFromZero(applied, drained, summary)

C21_Witness ==
    /\ fpc = {"long"}
    /\ lastTick = "drain"
    /\ Len(enqueued) = BUFFER_LIMIT + 1
    /\ queue = <<>>
    /\ Len(feed) = BUFFER_LIMIT
    /\ feed[1].id = BUFFER_LIMIT + 1
    /\ feed[BUFFER_LIMIT].id = 2
    /\ Len(applied) = BUFFER_LIMIT + 1

\* no ceiling is passed by the unclamped score the reducer returns
BelowClamps(state) ==
    /\ state.totalRuns <= MAX_RUNS
    /\ state.wickets <= MAX_WICKETS
    /\ state.balls \div BALLS_PER_OVER <= MAX_OVERS

\* a BALL with numeric runs of zero or more, a BOUNDARY with runs 4 or 6,
\* or a WICKET
AgreedEvent(evt) ==
    \/ /\ evt.type = "BALL"
       /\ evt.payload.present
       /\ evt.payload.runs.t = "num"
       /\ evt.payload.runs.n >= 0
    \/ /\ evt.type = "BOUNDARY"
       /\ evt.payload.present
       /\ evt.payload.runs \in {Num(4), Num(6)}
    \/ evt.type = "WICKET"

\* C22: from a summary and the reducer state that shows the same score, a
\* BALL with numeric runs, a BOUNDARY with runs 4 or 6 or a WICKET that
\* passes no ceiling leaves the two showing the same score again: runs =
\* totalRuns, wickets = wickets, overs = floor(balls / 6), balls = balls
\* mod 6, which is also what formatOvers shows.
C22_AccumulatorsAgree ==
    (/\ "app" \in fpc
     /\ "reducer" \in fpc
     /\ AgreedEvent(fevt)
     /\ rout.kind = "return"
     /\ BelowClamps(rout.value)) =>
        /\ fout.kind = "return"
        /\ fout.value = Summary(Num(rout.value.totalRuns), rout.value.wickets,
                                rout.value.balls \div BALLS_PER_OVER,
                                rout.value.balls % BALLS_PER_OVER)
        /\ NatToChars(fout.value.overs) \o <<".">> \o NatToChars(fout.value.balls)
              = formatOvers(rout.value.balls)

C22_Witness ==
    /\ fpc = {"input", "app", "reducer"}
    /\ fevt.type = "BOUNDARY"
    /\ fevt.payload.runs = Num(6)
    /\ fin = Summary(Num(MAX_RUNS - 6), MAX_WICKETS - 1, MAX_OVERS - 1, BALLS_PER_OVER - 1)
    /\ fout.value = Summary(Num(MAX_RUNS), MAX_WICKETS - 1, MAX_OVERS, 0)
    /\ rout.value.totalRuns = MAX_RUNS
    /\ rout.value.balls = MAX_OVERS * BALLS_PER_OVER

====
